---- MODULE Spec2Model ----
(***************************************************************************)
(* A model of src/data/extract_checklists.py: the line scan of             *)
(* parse_checklist, the hierarchy builder add_step_to_hierarchy /          *)
(* find_parent_and_add_step, and the state they share.                     *)
(*                                                                         *)
(* Text is modelled as a sequence of tokens, each token one maximal piece  *)
(* of a line: "#" is one hash character, "sp" a run of blanks (two blanks  *)
(* where the count matters), "..." three dots, "." one dot, "q" a double   *)
(* quote, "PFD" the literal 'PFD Alerts Window: ', and the rest are words. *)
(* An Optional[...] value is <<>> for None and <<v>> for the value v; the  *)
(* empty string is the empty token sequence.                               *)
(***************************************************************************)
EXTENDS Integers, Sequences, FiniteSets, TLC

VARIABLES
    lines,                   \* the lines of the input file, read before the scan
    i,                       \* main scan position (number of lines passed)
    line_count,              \* number of main-loop iterations started
    checklists,              \* the output sequence
    current_checklist,       \* Optional[Checklist]: the open checklist
    current_section,         \* Optional[str]
    current_subsection,      \* Optional[str]
    pending_cas,             \* Optional[str]
    pending_cas_type,        \* Optional[str]
    pending_cas_description, \* Optional[str]
    pending_pfd_alert,       \* Optional[str]
    j,                       \* position of the last step's lookahead when it stopped
    uuid,                    \* number of identifiers generated so far
    warnings,                \* number of logger.warning calls of the hierarchy builder
    trace,                   \* the main loop's dispatches: which line went to which handler
    issues_found,            \* the validator's count of issues
    validation_log,          \* the warnings the validator logged about steps
    pc                       \* "scan" in the main loop, "done" after it, "validated" at the end

vars == <<lines, i, line_count, checklists, current_checklist, current_section,
          current_subsection, pending_cas, pending_cas_type,
          pending_cas_description, pending_pfd_alert, j, uuid, warnings, trace,
          issues_found, validation_log, pc>>

----------------------------------------------------------------------------
(* Optional values and truthiness *)

None == <<>>

Some(v) == <<v>>

\* Python truthiness of an Optional[str]: None and "" are both falsy
Truthy(opt) == opt # None /\ opt[1] # <<>>

----------------------------------------------------------------------------
(* Token classes *)

\* words made of capital letters and digits only, two characters or more
UpperWords == {"EMERGENCY", "FOO", "BAR", "ON"}

\* runs of decimal digits
DigitWords == {"1", "2"}

\* single lowercase letters
LetterWords == {"a", "b"}

\* tokens whose first character is a capital letter
CapitalStart == UpperWords \cup {"Caution", "Advisory", "Check", "Verify", "If", "PFD"}

\* tokens that are runs of dots
DotRuns == {".", "..."}

\* first words that make a step conditional (lower-cased: if, when, verify)
ConditionalWords == {"If", "if", "When", "when", "Verify", "verify"}

----------------------------------------------------------------------------
(* str methods *)

RECURSIVE LStrip(_)
LStrip(s) == IF s # <<>> /\ Head(s) = "sp" THEN LStrip(Tail(s)) ELSE s

RECURSIVE RStrip(_)
RStrip(s) ==
    IF s # <<>> /\ s[Len(s)] = "sp" THEN RStrip(SubSeq(s, 1, Len(s) - 1)) ELSE s

Strip(s) == LStrip(RStrip(s))

\* "tok" in s
Contains(s, tok) == \E k \in 1..Len(s) : s[k] = tok

\* index of the first tok in s at or after position from, 0 when there is none
RECURSIVE IndexFrom(_, _, _)
IndexFrom(s, tok, from) ==
    IF from > Len(s) THEN 0
    ELSE IF s[from] = tok THEN from
    ELSE IndexFrom(s, tok, from + 1)

\* s + " " + t
JoinSpace(s, t) == s \o <<"sp">> \o t

\* s.split("...")[0] and s.split("...")[1], for s that contains "..."
SplitPart0(s) == SubSeq(s, 1, IndexFrom(s, "...", 1) - 1)

SplitPart1(s) ==
    LET p == IndexFrom(s, "...", 1)
        n == IndexFrom(s, "...", p + 1)
    IN  SubSeq(s, p + 1, IF n = 0 THEN Len(s) ELSE n - 1)

\* re.sub(r'\.+', '', s)
RECURSIVE RemoveDots(_)
RemoveDots(s) ==
    IF s = <<>> THEN <<>>
    ELSE IF Head(s) \in DotRuns THEN RemoveDots(Tail(s))
    ELSE <<Head(s)>> \o RemoveDots(Tail(s))

\* the number of leading "sp" tokens
RECURSIVE LeadingBlank(_)
LeadingBlank(s) ==
    IF s # <<>> /\ Head(s) = "sp" THEN 1 + LeadingBlank(Tail(s)) ELSE 0

----------------------------------------------------------------------------
(* The regular expressions of parse_checklist *)

\* [A-Z][A-Z0-9 ]+
UpperRun(s) ==
    /\ s # <<>>
    /\ s[1] \in UpperWords
    /\ \A k \in 1..Len(s) : s[k] \in UpperWords \cup DigitWords \cup {"sp"}

\* ^#([A-Z][A-Z0-9 ]+)$
section_pattern(l) == Len(l) >= 2 /\ l[1] = "#" /\ UpperRun(Tail(l))

section_group1(l) == Tail(l)

\* ^##([A-Z].+)$
subsection_pattern(l) ==
    Len(l) >= 3 /\ l[1] = "#" /\ l[2] = "#" /\ l[3] \in CapitalStart

subsection_group1(l) == SubSeq(l, 3, Len(l))

\* ^###(.+)$
checklist_pattern(l) == Len(l) >= 4 /\ l[1] = "#" /\ l[2] = "#" /\ l[3] = "#"

checklist_group1(l) == SubSeq(l, 4, Len(l))

\* ^PFD Alerts Window: [""]([^""]+)[""]$
pfd_alert_pattern(l) ==
    /\ Len(l) >= 4
    /\ l[1] = "PFD" /\ l[2] = "q" /\ l[Len(l)] = "q"
    /\ \A k \in 3..(Len(l) - 1) : l[k] # "q"

pfd_alert_group1(l) == SubSeq(l, 3, Len(l) - 1)

\* ^([A-Z][A-Z0-9 ]+)(?:\s+Caution|Advisory)?$
cas_message_line_pattern(l) ==
    \/ UpperRun(l)
    \/ /\ Len(l) >= 3
       /\ l[Len(l)] = "Caution"
       /\ l[Len(l) - 1] = "sp"
       /\ UpperRun(SubSeq(l, 1, Len(l) - 1))
    \/ /\ Len(l) >= 2
       /\ l[Len(l)] = "Advisory"
       /\ UpperRun(SubSeq(l, 1, Len(l) - 1))

cas_message_line_group1(l) ==
    IF l[Len(l)] \in {"Caution", "Advisory"} THEN SubSeq(l, 1, Len(l) - 1) ELSE l

\* ^(\s*)(?:(\d+)\.|\((\d+)\)|([a-z])\.)\s+(.+?)(?:\.\.\.\s*(.+))?$
\* item_numbering: the numbering form at the start of l (after the indent) and
\* the number of tokens it takes, or form "none"
item_numbering(l) ==
    LET w == LeadingBlank(l)
        r == SubSeq(l, w + 1, Len(l))
    IN  IF Len(r) >= 2 /\ r[1] \in DigitWords /\ r[2] = "."
        THEN [form |-> "num1", text |-> r[1], rest |-> SubSeq(r, 3, Len(r))]
        ELSE IF Len(r) >= 3 /\ r[1] = "(" /\ r[2] \in DigitWords /\ r[3] = ")"
        THEN [form |-> "num2", text |-> r[2], rest |-> SubSeq(r, 4, Len(r))]
        ELSE IF Len(r) >= 2 /\ r[1] \in LetterWords /\ r[2] = "."
        THEN [form |-> "letter", text |-> r[1], rest |-> SubSeq(r, 3, Len(r))]
        ELSE [form |-> "none", text |-> "", rest |-> <<>>]

item_pattern(l) ==
    LET n == item_numbering(l)
    IN  /\ n.form # "none"
        /\ n.rest # <<>>
        /\ n.rest[1] = "sp"
        /\ LStrip(n.rest) # <<>>

\* the position in the text after the numbering of the "..." that separates
\* content and action: the first one with text on both sides, 0 when none
item_separator(body) ==
    LET p == IndexFrom(body, "...", 2)
    IN  IF p = 0 \/ p = Len(body) THEN 0 ELSE p

\* step_match.groups(): indent, num1, num2, letter, content, action. A group
\* that took no part in the match is None; num1, num2 and letter are never
\* empty when they took part, so the one-token text stands for the group.
item_groups(l) ==
    LET n    == item_numbering(l)
        body == LStrip(n.rest)
        p    == item_separator(body)
    IN  [indent  |-> LeadingBlank(l),
         num1    |-> IF n.form = "num1" THEN <<n.text>> ELSE None,
         num2    |-> IF n.form = "num2" THEN <<n.text>> ELSE None,
         letter  |-> IF n.form = "letter" THEN <<n.text>> ELSE None,
         content |-> IF p = 0 THEN body ELSE SubSeq(body, 1, p - 1),
         action  |-> IF p = 0 THEN None
                     ELSE Some(LStrip(SubSeq(body, p + 1, Len(body))))]

----------------------------------------------------------------------------
(* The dataclasses *)

ChecklistStep(id, instruction, action, is_conditional, indent_level, step_number) ==
    [id |-> id, instruction |-> instruction, action |-> action,
     is_conditional |-> is_conditional, indent_level |-> indent_level,
     step_number |-> step_number, sub_steps |-> <<>>]

Checklist(id, title, section, subsection, cas, cas_type, cas_description, alert_message) ==
    [id |-> id, title |-> title, section |-> section, subsection |-> subsection,
     cas |-> cas, cas_type |-> cas_type, cas_description |-> cas_description,
     alert_message |-> alert_message, steps |-> <<>>]

----------------------------------------------------------------------------
(* The hierarchy builder *)

\* find_parent_and_add_step(potential_parent, new_step, target_indent): the
\* result ok, and the potential parent as the call leaves it
RECURSIVE find_parent_and_add_step(_, _, _)
RECURSIVE find_parent_in_sub_steps(_, _, _, _)

\* is_direct_parent with "one less" weakened to "less"
is_direct_parent_loose(potential_parent, target_indent) ==
    potential_parent.indent_level < target_indent

\* is potential_parent the direct parent of a step of indent target_indent
is_direct_parent(potential_parent, target_indent) ==
    potential_parent.indent_level = target_indent - 1

find_parent_and_add_step(potential_parent, new_step, target_indent) ==
    IF is_direct_parent(potential_parent, target_indent)
    THEN [ok |-> TRUE,
          step |-> [potential_parent EXCEPT !.sub_steps = Append(@, new_step)]]
    ELSE LET r == find_parent_in_sub_steps(potential_parent.sub_steps,
                      Len(potential_parent.sub_steps), new_step, target_indent)
         IN  [ok |-> r.ok, step |-> [potential_parent EXCEPT !.sub_steps = r.steps]]

\* find_parent_in_sub_steps searching the oldest step first: with k steps left
\* to try, it tries element Len(steps) - k + 1
RECURSIVE find_parent_oldest_first(_, _, _, _)
find_parent_oldest_first(steps, k, new_step, target_indent) ==
    IF k = 0 THEN [ok |-> FALSE, steps |-> steps]
    ELSE LET m == Len(steps) - k + 1
             r == find_parent_and_add_step(steps[m], new_step, target_indent)
         IN  IF r.ok THEN [ok |-> TRUE, steps |-> [steps EXCEPT ![m] = r.step]]
             ELSE find_parent_oldest_first(steps, k - 1, new_step, target_indent)

\* the loop "for i in range(len(steps) - 1, -1, -1)" from element k downwards
find_parent_in_sub_steps(steps, k, new_step, target_indent) ==
    IF k = 0 THEN [ok |-> FALSE, steps |-> steps]
    ELSE LET r == find_parent_and_add_step(steps[k], new_step, target_indent)
         IN  IF r.ok THEN [ok |-> TRUE, steps |-> [steps EXCEPT ![k] = r.step]]
             ELSE find_parent_in_sub_steps(steps, k - 1, new_step, target_indent)

\* add_step_to_hierarchy without the warning of its last fallback
add_step_to_hierarchy_silent(checklist, new_step, indent_level) ==
    IF indent_level = 0
    THEN [checklist |-> [checklist EXCEPT !.steps = Append(@, new_step)],
          warned |-> 0]
    ELSE IF checklist.steps = <<>>
    THEN [checklist |-> [checklist EXCEPT !.steps = Append(@, new_step)],
          warned |-> 1]
    ELSE LET r == find_parent_in_sub_steps(checklist.steps, Len(checklist.steps),
                                           new_step, indent_level)
         IN  IF r.ok
             THEN [checklist |-> [checklist EXCEPT !.steps = r.steps], warned |-> 0]
             ELSE [checklist |-> [checklist EXCEPT !.steps = Append(@, new_step)],
                   warned |-> 0]

\* add_step_to_hierarchy that also appends a step it has put below a parent
add_step_to_hierarchy_both(checklist, new_step, indent_level) ==
    IF indent_level = 0
    THEN [checklist |-> [checklist EXCEPT !.steps = Append(@, new_step)],
          warned |-> 0]
    ELSE IF checklist.steps = <<>>
    THEN [checklist |-> [checklist EXCEPT !.steps = Append(@, new_step)],
          warned |-> 1]
    ELSE LET r == find_parent_in_sub_steps(checklist.steps, Len(checklist.steps),
                                           new_step, indent_level)
         IN  IF r.ok
             THEN [checklist |-> [checklist EXCEPT !.steps = Append(r.steps, new_step)],
                   warned |-> 0]
             ELSE [checklist |-> [checklist EXCEPT !.steps = Append(@, new_step)],
                   warned |-> 1]

\* add_step_to_hierarchy(checklist, new_step, indent_level): the checklist as
\* the call leaves it, and the number of warnings it logged
add_step_to_hierarchy(checklist, new_step, indent_level) ==
    IF indent_level = 0
    THEN [checklist |-> [checklist EXCEPT !.steps = Append(@, new_step)],
          warned |-> 0]
    ELSE IF checklist.steps = <<>>
    THEN [checklist |-> [checklist EXCEPT !.steps = Append(@, new_step)],
          warned |-> 1]
    ELSE LET r == find_parent_in_sub_steps(checklist.steps, Len(checklist.steps),
                                           new_step, indent_level)
         IN  IF r.ok
             THEN [checklist |-> [checklist EXCEPT !.steps = r.steps], warned |-> 0]
             ELSE [checklist |-> [checklist EXCEPT !.steps = Append(@, new_step)],
                   warned |-> 1]

----------------------------------------------------------------------------
(* The scan of parse_checklist *)

\* the line the main loop reads at position i: lines[i].rstrip()
line == RStrip(lines[i + 1])

Scanning == pc = "scan" /\ i < Len(lines)

\* what every iteration does before it looks at the line, and the record of
\* the handler the line is dispatched to
Dispatch(handler) ==
    /\ line_count' = line_count + 1
    /\ trace' = Append(trace, [idx |-> i, handler |-> handler])

\* if not line: continue
SkipBlank ==
    /\ Scanning
    /\ line = <<>>
    /\ Dispatch("blank")
    /\ i' = i + 1
    /\ UNCHANGED <<issues_found, validation_log, lines, checklists, current_checklist, current_section,
                   current_subsection, pending_cas, pending_cas_type,
                   pending_cas_description, pending_pfd_alert, j, uuid,
                   warnings, pc>>

\* a section handler that forgets the subsection of the previous section
SectionHeader_resetting ==
    /\ Scanning
    /\ line # <<>>
    /\ section_pattern(line)
    /\ Dispatch("section")
    /\ i' = i + 1
    /\ current_section' = Some(section_group1(line))
    /\ current_subsection' = None
    /\ UNCHANGED <<issues_found, validation_log, lines, checklists, current_checklist,
                   pending_cas, pending_cas_type, pending_cas_description,
                   pending_pfd_alert, j, uuid, warnings, pc>>

SectionHeader ==
    /\ Scanning
    /\ line # <<>>
    /\ section_pattern(line)
    /\ Dispatch("section")
    /\ i' = i + 1
    /\ current_section' = Some(section_group1(line))
    /\ UNCHANGED <<issues_found, validation_log, lines, checklists, current_checklist, current_subsection,
                   pending_cas, pending_cas_type, pending_cas_description,
                   pending_pfd_alert, j, uuid, warnings, pc>>

SubsectionHeader ==
    /\ Scanning
    /\ line # <<>>
    /\ ~section_pattern(line)
    /\ subsection_pattern(line)
    /\ Dispatch("subsection")
    /\ i' = i + 1
    /\ current_subsection' = Some(subsection_group1(line))
    /\ UNCHANGED <<issues_found, validation_log, lines, checklists, current_checklist, current_section,
                   pending_cas, pending_cas_type, pending_cas_description,
                   pending_pfd_alert, j, uuid, warnings, pc>>

\* append_if_steps without the test for steps
append_if_steps_always(out, checklist) ==
    IF checklist # None THEN Append(out, checklist[1]) ELSE out

\* a variant that puts the checklist at the front of the output
append_if_steps_in_front(out, checklist) ==
    IF checklist # None /\ checklist[1].steps # <<>>
    THEN <<checklist[1]>> \o out
    ELSE out

\* a variant that starts the output again from the checklist
append_if_steps_alone(out, checklist) ==
    IF checklist # None /\ checklist[1].steps # <<>>
    THEN <<checklist[1]>>
    ELSE out

\* if current_checklist and current_checklist.steps: checklists.append(...)
append_if_steps(out, checklist) ==
    IF checklist # None /\ checklist[1].steps # <<>>
    THEN Append(out, checklist[1])
    ELSE out

\* if pending_cas or pending_pfd_alert: the pending cells are reset
pending_reset(cas, pfd_alert) == Truthy(cas) \/ Truthy(pfd_alert)

ChecklistTitle ==
    /\ Scanning
    /\ line # <<>>
    /\ ~section_pattern(line)
    /\ ~subsection_pattern(line)
    /\ checklist_pattern(line)
    /\ Dispatch("checklist")
    /\ i' = i + 1
    /\ checklists' = append_if_steps(checklists, current_checklist)
    /\ uuid' = uuid + 1
    /\ current_checklist' =
           Some(Checklist(uuid + 1,
                          Strip(checklist_group1(line)),
                          IF Truthy(current_section) THEN current_section[1] ELSE <<>>,
                          current_subsection,
                          pending_cas, pending_cas_type, pending_cas_description,
                          pending_pfd_alert))
    /\ IF pending_reset(pending_cas, pending_pfd_alert)
       THEN /\ pending_cas' = None
            /\ pending_cas_type' = None
            /\ pending_cas_description' = None
            /\ pending_pfd_alert' = None
       ELSE UNCHANGED <<pending_cas, pending_cas_type, pending_cas_description,
                        pending_pfd_alert>>
    /\ UNCHANGED <<issues_found, validation_log, lines, current_section, current_subsection, j, warnings, pc>>

Headers(l) == section_pattern(l) \/ subsection_pattern(l) \/ checklist_pattern(l)

PfdAlert ==
    /\ Scanning
    /\ line # <<>>
    /\ ~Headers(line)
    /\ pfd_alert_pattern(line)
    /\ Dispatch("pfd")
    /\ i' = i + 1
    /\ IF current_checklist # None
       THEN /\ current_checklist' =
                   Some([current_checklist[1] EXCEPT
                            !.alert_message = Some(Strip(pfd_alert_group1(line)))])
            /\ pending_pfd_alert' = None
       ELSE /\ pending_pfd_alert' = Some(Strip(pfd_alert_group1(line)))
            /\ UNCHANGED current_checklist
    /\ UNCHANGED <<issues_found, validation_log, lines, checklists, current_section, current_subsection,
                   pending_cas, pending_cas_type, pending_cas_description, j,
                   uuid, warnings, pc>>

\* the line after position at as the CAS handler reads it (lines[at].strip()),
\* None at the end of the file
line_after(at) == IF at < Len(lines) THEN Some(Strip(lines[at + 1])) ELSE None

\* the qualifier the CAS handler takes from the line l or from the line after
\* it, and the number of lines it consumes after l. name is the CAS name of l,
\* next the line after l (None at the end of the file), old_type the value of
\* pending_cas_type before the handler.
cas_qualifier(l, name, next, old_type) ==
    IF Contains(l, "Caution") THEN [type |-> Some("Caution"), skip |-> 0]
    ELSE IF Contains(l, "Advisory") THEN [type |-> Some("Advisory"), skip |-> 0]
    ELSE IF next # None
    THEN IF next[1] = name THEN [type |-> old_type, skip |-> 1]
         ELSE IF Contains(next[1], "Caution")
         THEN [type |-> Some("Caution"), skip |-> 1]
         ELSE IF Contains(next[1], "Advisory")
         THEN [type |-> Some("Advisory"), skip |-> 1]
         ELSE [type |-> old_type, skip |-> 0]
    ELSE [type |-> old_type, skip |-> 0]

CasMessage ==
    /\ Scanning
    /\ line # <<>>
    /\ ~Headers(line)
    /\ ~pfd_alert_pattern(line)
    /\ cas_message_line_pattern(line)
    /\ ~(current_checklist # None /\ item_pattern(line))
    /\ Dispatch("cas")
    /\ LET name == Strip(cas_message_line_group1(line))
           q    == cas_qualifier(line, name, line_after(i + 1), pending_cas_type)
       IN  /\ i' = i + 1 + q.skip
           /\ IF current_checklist # None
              THEN /\ current_checklist' =
                          Some([current_checklist[1] EXCEPT
                                   !.cas = Some(name), !.cas_type = q.type])
                   /\ pending_cas' = None
                   /\ pending_cas_type' = None
              ELSE /\ pending_cas' = Some(name)
                   /\ pending_cas_type' = q.type
                   /\ UNCHANGED current_checklist
    /\ UNCHANGED <<issues_found, validation_log, lines, checklists, current_section, current_subsection,
                   pending_cas_description, pending_pfd_alert, j, uuid,
                   warnings, pc>>

\* starts_new_pattern without the test for a PFD alert line
starts_new_pattern_without_pfd(next_line) ==
    \/ section_pattern(next_line)
    \/ subsection_pattern(next_line)
    \/ checklist_pattern(next_line)
    \/ item_pattern(next_line)
    \/ cas_message_line_pattern(next_line)

\* the test that ends the lookahead of a step: the next line starts a new pattern
starts_new_pattern(next_line) ==
    \/ section_pattern(next_line)
    \/ subsection_pattern(next_line)
    \/ checklist_pattern(next_line)
    \/ item_pattern(next_line)
    \/ cas_message_line_pattern(next_line)
    \/ pfd_alert_pattern(next_line)

\* the positions after the lookahead passes a blank line
skip_blank(jj, ii) == [j |-> jj + 1, i |-> ii]

\* skip_continuation that sets the main scan one past the lookahead
skip_continuation_past(jj, ii) == [j |-> jj + 1, i |-> jj + 2]

\* skip_continuation that moves the main scan back
skip_continuation_back(jj, ii) == [j |-> jj + 1, i |-> ii - 1]

\* the positions after the lookahead merges a continuation line
skip_continuation(jj, ii) == [j |-> jj + 1, i |-> ii + 1]

\* the merge of one continuation line into instruction and action
merge_continuation(next_line, instruction, action) ==
    IF Contains(next_line, "...")
    THEN [instruction |->
              IF instruction # <<>> /\ ~Contains(instruction, "...")
              THEN JoinSpace(instruction, Strip(SplitPart0(next_line)))
              ELSE instruction,
          action |->
              IF action # <<>>
              THEN JoinSpace(action, Strip(SplitPart1(next_line)))
              ELSE Strip(SplitPart1(next_line))]
    ELSE [instruction |-> JoinSpace(instruction, Strip(next_line)),
          action |-> action]

\* the lookahead loop "while j < len(lines)" of a step, from positions jj
\* (lookahead) and ii (main scan): the positions and the texts it ends with
RECURSIVE continuation_lookahead(_, _, _, _)
continuation_lookahead(jj, ii, instruction, action) ==
    IF jj >= Len(lines)
    THEN [j |-> jj, i |-> ii, instruction |-> instruction, action |-> action]
    ELSE LET next_line == RStrip(lines[jj + 1])
         IN  IF next_line = <<>>
             THEN LET p == skip_blank(jj, ii)
                  IN  continuation_lookahead(p.j, p.i, instruction, action)
             ELSE IF starts_new_pattern(next_line)
             THEN [j |-> jj, i |-> ii, instruction |-> instruction,
                   action |-> action]
             ELSE LET p == skip_continuation(jj, ii)
                      m == merge_continuation(next_line, instruction, action)
                  IN  continuation_lookahead(p.j, p.i, m.instruction, m.action)

\* a numbering that leaves the level computed from the leading whitespace
step_numbering_by_whitespace(g) ==
    IF g.num1 # None
    THEN [step_number |-> Some(g.num1), indent_level |-> g.indent]
    ELSE IF g.num2 # None
    THEN [step_number |-> Some(<<"(">> \o g.num2 \o <<")">>), indent_level |-> g.indent]
    ELSE [step_number |-> g.letter, indent_level |-> g.indent]

\* the step number and the indent level of a step, from the groups of its match
step_numbering(g) ==
    IF g.num1 # None
    THEN [step_number |-> Some(g.num1), indent_level |-> 0]
    ELSE IF g.num2 # None
    THEN [step_number |-> Some(<<"(">> \o g.num2 \o <<")">>), indent_level |-> 2]
    ELSE IF g.letter # None
    THEN [step_number |-> Some(g.letter), indent_level |-> 1]
    ELSE [step_number |-> None, indent_level |-> g.indent]

\* instruction.lower().startswith(('if', 'when', 'verify'))
is_conditional(instruction) ==
    instruction # <<>> /\ instruction[1] \in ConditionalWords

StepItem ==
    /\ Scanning
    /\ line # <<>>
    /\ ~Headers(line)
    /\ ~pfd_alert_pattern(line)
    /\ ~cas_message_line_pattern(line)
    /\ item_pattern(line)
    /\ current_checklist # None
    /\ Dispatch("step")
    /\ \E g \in {item_groups(line)} :
       \E la \in {continuation_lookahead(i + 1, i + 1, Strip(g.content),
                      IF g.action # None THEN Strip(g.action[1]) ELSE <<>>)} :
       \E act \in {IF la.action # <<>> THEN Strip(RemoveDots(la.action)) ELSE <<>>} :
       \E n \in {step_numbering(g)} :
       \E new_step \in {ChecklistStep(uuid + 1, la.instruction, act,
                           is_conditional(la.instruction), n.indent_level,
                           n.step_number)} :
       \E r \in {add_step_to_hierarchy(current_checklist[1], new_step,
                                        n.indent_level)} :
           /\ i' = la.i
           /\ j' = la.j
           /\ uuid' = uuid + 1
           /\ current_checklist' = Some(r.checklist)
           /\ warnings' = warnings + r.warned
    /\ UNCHANGED <<issues_found, validation_log, lines, checklists, current_section, current_subsection,
                   pending_cas, pending_cas_type, pending_cas_description,
                   pending_pfd_alert, pc>>

\* a line no branch of the loop takes: only the position moves
Unmatched ==
    /\ Scanning
    /\ line # <<>>
    /\ ~Headers(line)
    /\ ~pfd_alert_pattern(line)
    /\ ~(cas_message_line_pattern(line)
         /\ (current_checklist = None \/ ~item_pattern(line)))
    /\ ~(item_pattern(line) /\ current_checklist # None)
    /\ Dispatch("none")
    /\ i' = i + 1
    /\ UNCHANGED <<issues_found, validation_log, lines, checklists, current_checklist, current_section,
                   current_subsection, pending_cas, pending_cas_type,
                   pending_cas_description, pending_pfd_alert, j, uuid,
                   warnings, pc>>

\* after the loop: the last checklist is added
Finish ==
    /\ pc = "scan"
    /\ i >= Len(lines)
    /\ checklists' = append_if_steps(checklists, current_checklist)
    /\ pc' = "done"
    /\ UNCHANGED <<issues_found, validation_log, lines, i, line_count, current_checklist, current_section,
                   current_subsection, pending_cas, pending_cas_type,
                   pending_cas_description, pending_pfd_alert, j, uuid,
                   warnings, trace>>

----------------------------------------------------------------------------
(* The validator *)

\* the test of validate_steps for inconsistent indentation of a step
inconsistent_indentation(step) ==
    /\ step.sub_steps # <<>>
    /\ \E k \in 1..Len(step.sub_steps) :
           step.sub_steps[k].indent_level <= step.indent_level

\* validate_steps(steps, checklist_title): the number of issues found, and
\* the warnings logged, each with the step it is about
RECURSIVE validate_steps(_, _)
validate_steps(steps, checklist_title) ==
    IF steps = <<>> THEN [issues |-> 0, log |-> <<>>]
    ELSE LET step == Head(steps)
             missing == IF step.instruction = <<>>
                        THEN <<[warning |-> "instruction", step |-> step]>>
                        ELSE <<>>
             indent  == IF inconsistent_indentation(step)
                        THEN <<[warning |-> "indentation", step |-> step]>>
                        ELSE <<>>
             sub     == IF step.sub_steps # <<>>
                        THEN validate_steps(step.sub_steps, checklist_title)
                        ELSE [issues |-> 0, log |-> <<>>]
             rest    == validate_steps(Tail(steps), checklist_title)
         IN  [issues |-> Len(missing) + Len(indent) + sub.issues + rest.issues,
              log |-> missing \o indent \o sub.log \o rest.log]

\* validate_checklists(checklists): the issues found and the step warnings
RECURSIVE validate_checklists(_)
validate_checklists(cs) ==
    IF cs = <<>> THEN [issues |-> 0, log |-> <<>>]
    ELSE LET checklist == Head(cs)
             fields == (IF checklist.title = <<>> THEN 1 ELSE 0)
                       + (IF checklist.section = <<>> THEN 1 ELSE 0)
                       + (IF checklist.steps = <<>> THEN 1 ELSE 0)
             steps  == validate_steps(checklist.steps, checklist.title)
             rest   == validate_checklists(Tail(cs))
         IN  [issues |-> fields + steps.issues + rest.issues,
              log |-> steps.log \o rest.log]

\* validate_checklists(checklists, verbose), called once the output is complete
Validate ==
    /\ pc = "done"
    /\ LET v == validate_checklists(checklists)
       IN  /\ issues_found' = v.issues
           /\ validation_log' = v.log
    /\ pc' = "validated"
    /\ UNCHANGED <<lines, i, line_count, checklists, current_checklist,
                   current_section, current_subsection, pending_cas,
                   pending_cas_type, pending_cas_description, pending_pfd_alert,
                   j, uuid, warnings, trace>>

Next ==
    \/ SkipBlank
    \/ SectionHeader
    \/ SubsectionHeader
    \/ ChecklistTitle
    \/ PfdAlert
    \/ CasMessage
    \/ StepItem
    \/ Unmatched
    \/ Finish
    \/ Validate

----------------------------------------------------------------------------
(* Input files *)

LBlank       == <<>>
LSpaces      == <<"sp">>
LSection     == <<"#", "EMERGENCY">>
LSubsection  == <<"#", "#", "Check">>
LTitle       == <<"#", "#", "#", "Check">>
LTitleCaution == <<"#", "#", "#", "Caution", "sp", "lights">>
LPfd         == <<"PFD", "q", "lights", "q">>
LPfdSpaces   == <<"PFD", "q", "sp", "q">>
LCas         == <<"FOO">>
LCasCaution  == <<"FOO", "sp", "Caution">>
LCasAdvisory == <<"FOO", "sp", "Advisory">>
LCasOther    == <<"BAR">>
LCasIndented == <<"sp", "FOO">>
LStepDigit   == <<"1", ".", "sp", "Check", "sp", "...", "sp", "ON">>
LStepLetter  == <<"a", ".", "sp", "Verify", "sp", "lights">>
LStepLetterIndented == <<"sp", "b", ".", "sp", "Check">>
LStepParen   == <<"(", "2", ")", "sp", "Check">>
LStepDigitIndented == <<"sp", "sp", "1", ".", "sp", "Check">>
LStepParenIndented == <<"sp", "sp", "sp", "(", "1", ")", "sp", "Check">>
LText        == <<"lights">>
LTextAction  == <<"lights", "sp", "...", "sp", "ON">>
LTextAdvisory == <<"see", "sp", "Advisory">>

\* one line for each branch of the main loop
BaseLines ==
    {LBlank, LSection, LSubsection, LTitle, LPfd, LCas, LStepDigit, LText}

AllLines ==
    BaseLines \cup
    {LSpaces, LTitleCaution, LPfdSpaces, LCasCaution, LCasAdvisory, LCasOther,
     LCasIndented, LStepLetter, LStepLetterIndented, LStepParen, LTextAction,
     LTextAdvisory}

TreeLines == BaseLines \cup {LStepLetter, LStepParen}

CasLines == BaseLines \cup {LCasCaution, LCasOther, LPfdSpaces}

MergeLines == BaseLines \cup {LTextAction}

\* the files of at most n lines over the lines of A
\* every numbering form, with and without leading whitespace
IndentLines ==
    BaseLines \cup {LStepLetter, LStepParen, LStepDigitIndented,
                    LStepLetterIndented, LStepParenIndented}

Files(A, n) == UNION {[1..k -> A] : k \in 0..n}

MaxLines == 3

MaxTreeLines == 4

MaxCasLines == 4

MaxMergeLines == 4

MaxIndentLines == 3

MaxStepLines == 4

\* the files that open a checklist on their first line
Titled(files) == {<<LTitle>> \o f : f \in files}

\* the state when the loop is entered, for an input file among files
InitOn(files) ==
    /\ lines \in files
    /\ i = 0
    /\ line_count = 0
    /\ checklists = <<>>
    /\ current_checklist = None
    /\ current_section = None
    /\ current_subsection = None
    /\ pending_cas = None
    /\ pending_cas_type = None
    /\ pending_cas_description = None
    /\ pending_pfd_alert = None
    /\ j = 0
    /\ uuid = 0
    /\ warnings = 0
    /\ trace = <<>>
    /\ issues_found = 0
    /\ validation_log = <<>>
    /\ pc = "scan"

Init == InitOn(Files(AllLines, MaxLines))

InitTree == InitOn(Titled(Files(TreeLines, MaxTreeLines)))

InitCas == InitOn(Files(CasLines, MaxCasLines))

InitMerge == InitOn(Titled(Files(MergeLines, MaxMergeLines)))

InitIndent == InitOn(Titled(Files(IndentLines, MaxIndentLines)))

InitSteps == InitOn(Files(TreeLines, MaxStepLines))

Spec == Init /\ [][Next]_vars

SpecTree == InitTree /\ [][Next]_vars

SpecCas == InitCas /\ [][Next]_vars

SpecMerge == InitMerge /\ [][Next]_vars

SpecIndent == InitIndent /\ [][Next]_vars

\* the parse runs alone and to its end: a step that can be taken is taken
FairSpec == Init /\ [][Next]_vars /\ WF_vars(Next)

SpecSteps == InitSteps /\ [][Next]_vars

\* validate_steps takes any list of steps: the step trees it is applied to
\* are all the trees of a step, its children and at most one step below each
MaxValLevel == 2

MaxValChildren == 2

ValidatorStep(level, subs) ==
    [ChecklistStep(0, <<"Check">>, <<>>, FALSE, level, None)
        EXCEPT !.sub_steps = subs]

ValidatorLeaves == {ValidatorStep(l, <<>>) : l \in 0..MaxValLevel}

ValidatorChildren ==
    ValidatorLeaves \cup
    {ValidatorStep(l, <<c>>) : l \in 0..MaxValLevel, c \in ValidatorLeaves}

ValidatorTrees ==
    {ValidatorStep(l, subs) : l \in 0..MaxValLevel,
                              subs \in Files(ValidatorChildren, MaxValChildren)}

\* the state in which the validator is called, for a checklist of one tree
InitValidate ==
    /\ lines = <<>>
    /\ i = 0
    /\ line_count = 0
    /\ checklists \in
           {<<[Checklist(0, <<"Check">>, <<"EMERGENCY">>, None, None, None, None, None)
                  EXCEPT !.steps = <<t>>]>> : t \in ValidatorTrees}
    /\ current_checklist = None
    /\ current_section = None
    /\ current_subsection = None
    /\ pending_cas = None
    /\ pending_cas_type = None
    /\ pending_cas_description = None
    /\ pending_pfd_alert = None
    /\ j = 0
    /\ uuid = 0
    /\ warnings = 0
    /\ trace = <<>>
    /\ issues_found = 0
    /\ validation_log = <<>>
    /\ pc = "done"

NextValidate == Validate

SpecValidate == InitValidate /\ [][NextValidate]_vars

----------------------------------------------------------------------------
(* Reading the state *)

\* every step of a forest of steps, at any depth
RECURSIVE NodesOf(_)
NodesOf(steps) ==
    UNION {{steps[k]} \cup NodesOf(steps[k].sub_steps) : k \in 1..Len(steps)}

\* the checklists that exist: those of the output and the open one
Existing ==
    {checklists[k] : k \in 1..Len(checklists)} \cup
    (IF current_checklist # None THEN {current_checklist[1]} ELSE {})

\* n is an element of p.sub_steps
IsChild(p, n) == \E k \in 1..Len(p.sub_steps) : p.sub_steps[k].id = n.id

\* the last dispatch of the main loop
LastDispatch == trace[Len(trace)]

\* the handler the main loop gives a line to while a checklist is open
handler_of(l) ==
    IF l = <<>> THEN "blank"
    ELSE IF section_pattern(l) THEN "section"
    ELSE IF subsection_pattern(l) THEN "subsection"
    ELSE IF checklist_pattern(l) THEN "checklist"
    ELSE IF pfd_alert_pattern(l) THEN "pfd"
    ELSE IF cas_message_line_pattern(l) /\ ~item_pattern(l) THEN "cas"
    ELSE IF item_pattern(l) THEN "step"
    ELSE "none"

\* the position at which the lookahead of the step dispatched at idx stops
lookahead_stop(idx) == continuation_lookahead(idx + 1, idx + 1, <<>>, <<>>).j

\* the cas and cas_type on record: on the open checklist, else in the pending cells
Recorded ==
    IF current_checklist # None
    THEN <<current_checklist[1].cas, current_checklist[1].cas_type>>
    ELSE <<pending_cas, pending_cas_type>>

\* a line carries the Caution/Advisory qualifier
Qualified(l) == Contains(l, "Caution") \/ Contains(l, "Advisory")

----------------------------------------------------------------------------
(* Claims *)

\* C1: in every checklist, the open one and those of the output, every child
\* of a step has an indent_level one greater than its parent's.
C1_HierarchyInvariant ==
    \A c \in Existing : \A n \in NodesOf(c.steps) :
        \A k \in 1..Len(n.sub_steps) :
            n.sub_steps[k].indent_level = n.indent_level + 1

\* a finished parse whose output holds a three-level chain of steps
C1_Witness ==
    /\ pc = "done"
    /\ \E k \in 1..Len(checklists) : \E n \in NodesOf(checklists[k].steps) :
           /\ n.indent_level = 0
           /\ \E a \in 1..Len(n.sub_steps) : n.sub_steps[a].sub_steps # <<>>

\* C2 (as claimed): a CAS line followed by a verbatim repeat of its name
\* leaves on record what the CAS line alone leaves. When the CAS line has no
\* qualifier its handler takes both lines and records what it would record
\* with no line after it; when it has one, the repeat is dispatched next and
\* changes nothing on record.
C2_RepeatAddsNothing ==
    [][trace' = Append(trace, [idx |-> i, handler |-> "cas"]) =>
          LET name == Strip(cas_message_line_group1(line))
          IN  /\ (~Qualified(line) /\ line_after(i + 1) = Some(name)) =>
                     Recorded' =
                         <<Some(name),
                           cas_qualifier(line, name, None, pending_cas_type).type>>
              /\ (/\ trace # <<>>
                  /\ LastDispatch = [idx |-> i - 1, handler |-> "cas"]
                  /\ Strip(lines[i + 1]) =
                         Strip(cas_message_line_group1(RStrip(lines[i])))) =>
                     Recorded' = Recorded]_vars

\* C3 (as claimed): after the handler of a CAS line, when neither the line nor
\* the line after it carries a qualifier, the cas_type on record is absent,
\* whatever CAS lines came before. (A line that repeats the name of the CAS
\* line dispatched just before it is the case of C2 and is left out here.)
C3_UnqualifiedHasNoType ==
    (trace # <<>> /\ LastDispatch.handler = "cas") =>
        LET idx  == LastDispatch.idx
            l    == RStrip(lines[idx + 1])
            next == line_after(idx + 1)
            repeat ==
                /\ Len(trace) >= 2
                /\ trace[Len(trace) - 1] = [idx |-> idx - 1, handler |-> "cas"]
                /\ l = Strip(cas_message_line_group1(RStrip(lines[idx])))
        IN  (/\ ~Qualified(l)
             /\ next = None \/ ~Qualified(next[1])
             /\ ~repeat) =>
                Recorded[2] = None

\* C4 (as claimed): right after a checklist-title line the four pending cells
\* are absent.
C4_PendingClearedByTitle ==
    (trace # <<>> /\ LastDispatch.handler = "checklist") =>
        /\ pending_cas = None
        /\ pending_cas_type = None
        /\ pending_cas_description = None
        /\ pending_pfd_alert = None

\* the title lines dispatched so far that had a step dispatched before the
\* next title line
TitlesWithSteps ==
    {p \in DOMAIN trace :
        /\ trace[p].handler = "checklist"
        /\ \E q \in (p + 1)..Len(trace) :
               /\ trace[q].handler = "step"
               /\ \A r \in (p + 1)..(q - 1) : trace[r].handler # "checklist"}

\* C5: every checklist of the output has a step, and the output holds no more
\* checklists than there are title lines followed by a step line before the
\* next title line.
C5_NoEmptyChecklist ==
    /\ \A k \in 1..Len(checklists) : checklists[k].steps # <<>>
    /\ Len(checklists) <= Cardinality(TitlesWithSteps)

\* a finished parse with a checklist in the output and a title line that had
\* no step line
C5_Witness ==
    /\ pc = "done"
    /\ checklists # <<>>
    /\ \E p \in DOMAIN trace :
           trace[p].handler = "checklist" /\ p \notin TitlesWithSteps

\* C6 (as claimed): when the lookahead of a step has stopped the main scan is
\* at the lookahead's position, and the main loop reads no line between the
\* step and the line the lookahead stopped at.
C6_ScanAtLookahead ==
    /\ (trace # <<>> /\ LastDispatch.handler = "step") => i = j
    /\ \A p \in DOMAIN trace : trace[p].handler = "step" =>
           \A q \in DOMAIN trace :
               ~(trace[p].idx < trace[q].idx
                 /\ trace[q].idx < lookahead_stop(trace[p].idx))

\* C7: the structural line that ends the lookahead of a step is dispatched by
\* the main loop once, to the handler of its kind, as the scan passes it, and
\* not before.
C7_StopLineDispatchedOnce ==
    \A p \in DOMAIN trace : trace[p].handler = "step" =>
        LET stop == lookahead_stop(trace[p].idx)
            at   == {q \in DOMAIN trace : trace[q].idx = stop}
        IN  stop < Len(lines) =>
                /\ handler_of(RStrip(lines[stop + 1])) \in
                       {"section", "subsection", "checklist", "pfd", "cas", "step"}
                /\ \A q \in at :
                       trace[q].handler = handler_of(RStrip(lines[stop + 1]))
                /\ Cardinality(at) = IF i > stop THEN 1 ELSE 0

\* a step whose lookahead passed a line and stopped at a structural line that
\* the scan has passed since
C7_Witness ==
    \E p \in DOMAIN trace :
        /\ trace[p].handler = "step"
        /\ lookahead_stop(trace[p].idx) > trace[p].idx + 1
        /\ lookahead_stop(trace[p].idx) < Len(lines)
        /\ i > lookahead_stop(trace[p].idx)

\* C8 (as claimed): while a checklist is open the pending cells pending_cas,
\* pending_cas_type and pending_pfd_alert are absent.
C8_NothingPendingWhileOpen ==
    current_checklist # None =>
        /\ pending_cas = None
        /\ pending_cas_type = None
        /\ pending_pfd_alert = None

\* C9: a step of indent L > 0 of a checklist that held a step of indent L - 1
\* when it was inserted is a child of the most recently inserted of those.
C9_ParentIsMostRecent ==
    \A c \in Existing : \A n \in NodesOf(c.steps) :
        LET cands == {m \in NodesOf(c.steps) :
                         m.indent_level = n.indent_level - 1 /\ m.id < n.id}
        IN  (n.indent_level > 0 /\ cands # {}) =>
                \E parent \in cands :
                    /\ IsChild(parent, n)
                    /\ \A m \in cands : m.id <= parent.id

\* a checklist with a top-level step of indent > 0 (a malformed insertion) and
\* a step that had two or more steps one level up to choose from
C9_Witness ==
    \E c \in Existing :
        /\ \E k \in 1..Len(c.steps) : c.steps[k].indent_level > 0
        /\ \E n \in NodesOf(c.steps) :
               /\ n.indent_level > 0
               /\ Cardinality({m \in NodesOf(c.steps) :
                      m.indent_level = n.indent_level - 1 /\ m.id < n.id}) >= 2

\* C10: a step of indent L > 0 is appended to the top-level steps exactly when
\* the open checklist holds no step of indent L - 1; then a warning is logged;
\* the step is in the tree either way and the scan goes on.
C10_NoParentFallback ==
    [][(trace' # trace /\ trace'[Len(trace')].handler = "step") =>
          LET old == current_checklist[1]
              new == current_checklist'[1]
              n   == CHOOSE m \in NodesOf(new.steps) : m.id = uuid'
              top == /\ Len(new.steps) = Len(old.steps) + 1
                     /\ new.steps[Len(new.steps)].id = uuid'
              nocand == \A m \in NodesOf(old.steps) :
                            m.indent_level # n.indent_level - 1
          IN  /\ \E m \in NodesOf(new.steps) : m.id = uuid'
              /\ n.indent_level > 0 => (top <=> nocand)
              /\ (n.indent_level > 0 /\ top) => warnings' = warnings + 1
              /\ pc' = "scan"
              /\ i' > i]_vars

\* a finished parse in which both fallbacks were taken: a sub-step put at the
\* top level of a checklist without steps, and one put there beside other steps
C10_Witness ==
    /\ pc = "done"
    /\ warnings >= 2
    /\ \E c \in Existing : \E k \in 2..Len(c.steps) : c.steps[k].indent_level > 0

----------------------------------------------------------------------------
(* The numbering of a step *)

\* the main loop has just given a line to the named handler
Dispatched(handler) ==
    /\ trace' # trace
    /\ trace'[Len(trace')].handler = handler

\* the step the step handler has just created
CreatedStep ==
    CHOOSE n \in NodesOf(current_checklist'[1].steps) : n.id = uuid'

\* the numbering as it is written on a step line, and the level of its form
written_numbering(l) ==
    LET r == LStrip(l)
    IN  IF r[1] = "(" THEN [token |-> SubSeq(r, 1, 3), level |-> 2]
        ELSE IF r[1] \in DigitWords THEN [token |-> <<r[1]>>, level |-> 0]
        ELSE [token |-> <<r[1]>>, level |-> 1]

\* C11: a step created from a line has the level of the line's numbering
\* form (digits 0, letter 1, parenthesised digits 2) whatever whitespace
\* leads the line, and the numbering as written for step_number; so the
\* level is 0, 1 or 2
C11_NumberingFixesIndent ==
    [][Dispatched("step") =>
          /\ CreatedStep.indent_level = written_numbering(line).level
          /\ CreatedStep.step_number = Some(written_numbering(line).token)
          /\ CreatedStep.indent_level \in {0, 1, 2}]_vars

\* a step whose line is indented to another level than its numbering gives
C11_Witness ==
    /\ trace # <<>>
    /\ LastDispatch.handler = "step"
    /\ current_checklist # None
    /\ \E n \in NodesOf(current_checklist[1].steps) :
          /\ n.id = uuid
          /\ LeadingBlank(lines[LastDispatch.idx + 1]) = 3
          /\ n.indent_level = 2
          /\ n.step_number = Some(<<"(", "1", ")">>)

----------------------------------------------------------------------------
(* The output *)

\* the id given to the object created by the p-th dispatch: ids are drawn
\* one per checklist and per step, in the order of creation
IdAt(p) ==
    1 + Cardinality({q \in 1..(p - 1) : trace[q].handler \in {"checklist", "step"}})

\* the k-th title line that had a step line before the next title line
KthTitleWithSteps(k) ==
    CHOOSE p \in TitlesWithSteps :
        Cardinality({q \in TitlesWithSteps : q <= p}) = k

\* C12: after the parse the output holds exactly the checklists whose title
\* line had a step line before the next title line or the end of the input,
\* each once, in the order of their title lines.
C12_OutputAssembly ==
    pc # "scan" =>
        /\ Len(checklists) = Cardinality(TitlesWithSteps)
        /\ \A k \in 1..Len(checklists) :
               LET p == KthTitleWithSteps(k)
               IN  /\ checklists[k].id = IdAt(p)
                   /\ checklists[k].title =
                          Strip(checklist_group1(RStrip(lines[trace[p].idx + 1])))

\* a finished parse of three title lines of which the second had no step
C12_Witness ==
    /\ pc = "done"
    /\ Len(checklists) = 2
    /\ \E p \in DOMAIN trace :
           /\ trace[p].handler = "checklist"
           /\ p \notin TitlesWithSteps
           /\ \E q \in TitlesWithSteps : q < p
           /\ \E q \in TitlesWithSteps : q > p

----------------------------------------------------------------------------
(* Title lines *)

\* C13 (as claimed): every checklist-title line the scan has passed was given
\* to the title handler, which opened a checklist for it; no other handler
\* took the line.
C13_TitleLineOpensChecklist ==
    \A k \in 1..Len(lines) :
        (k <= i /\ checklist_pattern(RStrip(lines[k])))
            => \E p \in DOMAIN trace :
                   trace[p] = [idx |-> k - 1, handler |-> "checklist"]

----------------------------------------------------------------------------
(* The branch a step is attached to *)

\* a step and the steps below it
Subtree(step) == {step} \cup NodesOf(step.sub_steps)

\* the created step was appended to the top-level steps, which are otherwise
\* as they were
AppendedAtTop(old, new) ==
    /\ Len(new.steps) = Len(old.steps) + 1
    /\ new.steps[Len(new.steps)].id = uuid'
    /\ \A k \in 1..Len(old.steps) : new.steps[k] = old.steps[k]

\* the created step was put below the k-th top-level step, and the other
\* top-level steps are as they were
AttachedInBranch(old, new, k) ==
    /\ Len(new.steps) = Len(old.steps)
    /\ \E n \in NodesOf(new.steps[k].sub_steps) : n.id = uuid'
    /\ \A m \in 1..Len(old.steps) : m # k => new.steps[m] = old.steps[m]

\* the top-level steps whose subtree holds a step of the given level
BranchesWithLevel(checklist, level) ==
    {k \in 1..Len(checklist.steps) :
        \E m \in Subtree(checklist.steps[k]) : m.indent_level = level}

\* C14 (as claimed): a step of indent > 0 is attached inside the subtree of
\* the last top-level step of the open checklist or appended to the top-level
\* steps, never inside the subtree of an earlier top-level step.
C14_AttachedToLastBranch ==
    [][(Dispatched("step") /\ CreatedStep.indent_level > 0) =>
          LET old == current_checklist[1]
              new == current_checklist'[1]
          IN  \/ AppendedAtTop(old, new)
              \/ /\ old.steps # <<>>
                 /\ AttachedInBranch(old, new, Len(old.steps))]_vars

\* C14 (amended): a step of indent L > 0 is attached inside the subtree of the
\* last top-level step whose subtree holds a step of indent L - 1, which need
\* not be the last top-level step, and never inside the subtree of an earlier
\* one; it is appended to the top-level steps when no subtree holds such a step.
C14_AttachedToLastBranchWithParent ==
    [][(Dispatched("step") /\ CreatedStep.indent_level > 0) =>
          LET old == current_checklist[1]
              new == current_checklist'[1]
              K   == BranchesWithLevel(old, CreatedStep.indent_level - 1)
          IN  IF K = {} THEN AppendedAtTop(old, new)
              ELSE AttachedInBranch(old, new,
                       CHOOSE k \in K : \A m \in K : m <= k)]_vars

\* a step attached below a top-level step after a later top-level step was added
C14_Witness ==
    \E c \in Existing : \E k \in 1..(Len(c.steps) - 1) :
        \E n \in NodesOf(c.steps[k].sub_steps) : n.id > c.steps[k + 1].id

----------------------------------------------------------------------------
(* The validator's indentation check *)

\* the validator logged the indentation warning about the step
ReportedIndentation(n) ==
    \E e \in 1..Len(validation_log) :
        validation_log[e] = [warning |-> "indentation", step |-> n]

\* C15 (as claimed): the validator reports a step for inconsistent indentation
\* exactly when the step has a child whose indent_level is not its own plus 1.
C15_ReportedIffChildNotOneDeeper ==
    pc = "validated" =>
        \A k \in 1..Len(checklists) : \A n \in NodesOf(checklists[k].steps) :
            ReportedIndentation(n) <=>
                \E m \in 1..Len(n.sub_steps) :
                    n.sub_steps[m].indent_level # n.indent_level + 1

----------------------------------------------------------------------------
(* Termination *)

\* C16: the scan of every input ends and leaves the output; each iteration of
\* the main loop moves the scan position forward, and the only step out of
\* the loop is the one taken at the end of the input.
C16_ScanTerminates ==
    /\ <>(pc # "scan")
    /\ [][pc = "scan" =>
             \/ /\ trace' # trace
                /\ i' > i
                /\ i' <= Len(lines)
                /\ pc' = "scan"
             \/ /\ i >= Len(lines)
                /\ pc' = "done"]_vars

\* a finished parse of a longest input, some of whose lines the lookahead of
\* a handler took
C16_Witness ==
    /\ pc = "done"
    /\ Len(lines) = MaxLines
    /\ i = Len(lines)
    /\ line_count < Len(lines)

----------------------------------------------------------------------------
(* Header lines *)

\* the open checklist, the pending cells and the output are as they were
HeaderFrame ==
    UNCHANGED <<current_checklist, pending_cas, pending_cas_type,
                pending_cas_description, pending_pfd_alert, checklists>>

\* C17: a section header sets current_section and a subsection header sets
\* current_subsection; neither changes the other, the open checklist, the
\* pending cells or the output; a checklist takes the section and the
\* subsection current at its title line, so the subsection of an earlier
\* section stays in force under a new section.
C17_HeaderFrame ==
    [][/\ Dispatched("section") =>
              /\ current_section' = Some(section_group1(line))
              /\ UNCHANGED current_subsection
              /\ HeaderFrame
       /\ Dispatched("subsection") =>
              /\ current_subsection' = Some(subsection_group1(line))
              /\ UNCHANGED current_section
              /\ HeaderFrame
       /\ Dispatched("checklist") =>
              /\ current_checklist'[1].subsection = current_subsection
              /\ current_section # None =>
                     current_checklist'[1].section = current_section[1]]_vars

\* a checklist opened under a section that follows a subsection header, with
\* the subsection of the earlier header
C17_Witness ==
    /\ Len(trace) = 3
    /\ trace[1].handler = "subsection"
    /\ trace[2].handler = "section"
    /\ trace[3].handler = "checklist"
    /\ current_checklist # None
    /\ current_checklist[1].section = section_group1(RStrip(lines[2]))
    /\ current_checklist[1].subsection = Some(subsection_group1(RStrip(lines[1])))

----------------------------------------------------------------------------
(* The checklists of the output *)

\* C18: the checklists of the output are never changed or removed, a
\* checklist enters the output as it was when open, and a step, CAS or PFD
\* line changes at most the checklist of the last title line.
C18_OnlyOpenChecklistModified ==
    [][/\ Len(checklists') >= Len(checklists)
       /\ \A k \in 1..Len(checklists) : checklists'[k] = checklists[k]
       /\ Len(checklists') > Len(checklists) =>
              /\ Len(checklists') = Len(checklists) + 1
              /\ current_checklist # None
              /\ checklists'[Len(checklists')] = current_checklist[1]
       /\ (Dispatched("step") \/ Dispatched("cas") \/ Dispatched("pfd")) =>
              /\ checklists' = checklists
              /\ current_checklist # None =>
                     /\ current_checklist' # None
                     /\ current_checklist'[1].id = current_checklist[1].id]_vars

\* a checklist is in the output, and the checklist of a later title line has
\* taken a CAS message and a step
C18_Witness ==
    /\ pc = "scan"
    /\ checklists # <<>>
    /\ current_checklist # None
    /\ current_checklist[1].cas # None
    /\ current_checklist[1].steps # <<>>
    /\ \E p \in DOMAIN trace : \E q \in DOMAIN trace :
           /\ trace[p].handler = "checklist"
           /\ trace[q].handler = "cas"
           /\ \E r \in 1..(p - 1) : trace[r].handler = "step"
           /\ p < q

----------------------------------------------------------------------------
(* The steps of a checklist *)

\* the number of steps of a tree
RECURSIVE CountNodes(_)
CountNodes(steps) ==
    IF steps = <<>> THEN 0
    ELSE 1 + CountNodes(Head(steps).sub_steps) + CountNodes(Tail(steps))

\* a tree without the step of the given id
RECURSIVE RemoveNode(_, _)
RemoveNode(steps, id) ==
    IF steps = <<>> THEN <<>>
    ELSE IF Head(steps).id = id THEN RemoveNode(Tail(steps), id)
    ELSE <<[Head(steps) EXCEPT !.sub_steps = RemoveNode(@, id)]>>
             \o RemoveNode(Tail(steps), id)

\* the step lines dispatched since the last title line, in a dispatch log
StepsSinceTitle(log) ==
    {q \in DOMAIN log :
        /\ log[q].handler = "step"
        /\ \E p \in 1..(q - 1) : log[p].handler = "checklist"
        /\ \A r \in (q + 1)..Len(log) : log[r].handler # "checklist"}

\* C19: a step line read while a checklist is open goes to the step handler,
\* which adds one step to the tree and leaves every other step where it was;
\* the tree of the open checklist has as many steps as step lines were
\* dispatched for it, each once; a step line read while no checklist is open
\* moves the scan position and nothing else.
C19_StepConservation ==
    [][/\ (trace' # trace /\ handler_of(line) = "step" /\ current_checklist # None)
              => Dispatched("step")
       /\ Dispatched("step") =>
              /\ current_checklist # None
              /\ RemoveNode(current_checklist'[1].steps, uuid')
                     = current_checklist[1].steps
              /\ CountNodes(current_checklist'[1].steps)
                     = CountNodes(current_checklist[1].steps) + 1
              /\ [current_checklist'[1] EXCEPT !.steps = <<>>]
                     = [current_checklist[1] EXCEPT !.steps = <<>>]
       /\ current_checklist' # None =>
              /\ CountNodes(current_checklist'[1].steps)
                     = Cardinality(StepsSinceTitle(trace'))
              /\ Cardinality({n.id : n \in NodesOf(current_checklist'[1].steps)})
                     = CountNodes(current_checklist'[1].steps)
       /\ (trace' # trace /\ item_pattern(line) /\ current_checklist = None
             /\ ~Dispatched("cas")) =>
              /\ Dispatched("none")
              /\ i' = i + 1
              /\ UNCHANGED <<checklists, current_checklist, current_section,
                             current_subsection, pending_cas, pending_cas_type,
                             pending_cas_description, pending_pfd_alert, j,
                             uuid, warnings, pc>>]_vars

\* a step line was read before any title line, and the checklist opened
\* later has a top-level step and a step below it
C19_Witness ==
    /\ trace # <<>>
    /\ trace[1].handler = "none"
    /\ item_pattern(RStrip(lines[1]))
    /\ current_checklist # None
    /\ \E k \in 1..Len(current_checklist[1].steps) :
           current_checklist[1].steps[k].sub_steps # <<>>
    /\ CountNodes(current_checklist[1].steps) = 2

----------------------------------------------------------------------------
(* Continuation lines *)

\* the first line from the k-th on that the main loop would give to a handler
\* other than those of blank and plain-text lines; Len(lines) + 1 if none
RECURSIVE RegionEnd(_)
RegionEnd(k) ==
    IF k > Len(lines) THEN k
    ELSE IF handler_of(RStrip(lines[k])) \in {"blank", "none"}
    THEN RegionEnd(k + 1)
    ELSE k

\* the texts of a step after each plain-text line from the k-th up to the
\* e-th (excluded) is merged into them once, in order
RECURSIVE MergeRegion(_, _, _, _)
MergeRegion(k, e, instruction, action) ==
    IF k >= e THEN [instruction |-> instruction, action |-> action]
    ELSE IF RStrip(lines[k]) = <<>>
    THEN MergeRegion(k + 1, e, instruction, action)
    ELSE LET m == merge_continuation(RStrip(lines[k]), instruction, action)
         IN  MergeRegion(k + 1, e, m.instruction, m.action)

\* the line at position idx lies after a dispatched step line and before the
\* line that ends the step's plain-text and blank lines
InRegion(idx) ==
    \E p \in DOMAIN trace :
        /\ trace[p].handler = "step"
        /\ trace[p].idx < idx
        /\ idx + 1 < RegionEnd(trace[p].idx + 2)

\* C20: the plain-text lines between a step line and the structural line (or
\* the end of the input) after it are merged into that step's instruction and
\* action, each once and in order, blank lines between them or not; the step
\* handler changes no other step, and when the main loop comes to read one of
\* these lines again it changes nothing but its position.
C20_ContinuationMergedOnce ==
    [][/\ Dispatched("step") =>
              LET g == item_groups(line)
                  m == MergeRegion(i + 2, RegionEnd(i + 2), Strip(g.content),
                           IF g.action # None THEN Strip(g.action[1]) ELSE <<>>)
              IN  /\ CreatedStep.instruction = m.instruction
                  /\ CreatedStep.action =
                         (IF m.action # <<>> THEN Strip(RemoveDots(m.action)) ELSE <<>>)
                  /\ RemoveNode(current_checklist'[1].steps, uuid')
                         = current_checklist[1].steps
                  /\ UNCHANGED <<checklists, current_section, current_subsection,
                                 pending_cas, pending_cas_type,
                                 pending_cas_description, pending_pfd_alert>>
       /\ (trace' # trace /\ InRegion(i)) =>
              /\ Dispatched("blank") \/ Dispatched("none")
              /\ i' = i + 1
              /\ UNCHANGED <<checklists, current_checklist, current_section,
                             current_subsection, pending_cas, pending_cas_type,
                             pending_cas_description, pending_pfd_alert, j,
                             uuid, warnings, pc>>]_vars

\* a step whose instruction took a plain-text line that follows a blank line,
\* and the main loop has read the plain-text line again
C20_Witness ==
    /\ Len(trace) >= 2
    /\ LastDispatch.handler = "none"
    /\ InRegion(LastDispatch.idx)
    /\ \E p \in DOMAIN trace :
           /\ trace[p].handler = "step"
           /\ trace[p].idx + 2 = LastDispatch.idx
           /\ RStrip(lines[trace[p].idx + 2]) = <<>>
           /\ \E n \in NodesOf(current_checklist[1].steps) :
                  /\ n.id = uuid
                  /\ n.instruction =
                         JoinSpace(Strip(item_groups(RStrip(lines[trace[p].idx + 1])).content),
                                   Strip(RStrip(lines[LastDispatch.idx + 1])))

====
